---- MODULE Spec2Model ----
(***************************************************************************)
(* Model of src/2WayArb.py: the two-way arbitrage calculator.              *)
(*                                                                         *)
(* Every number the program computes is a Python float, i.e. an IEEE-754   *)
(* binary64 value, and every arithmetic operation rounds to nearest, ties  *)
(* to even.  The claims are about values quantized with floor and ceil,    *)
(* which are decided by the last bit of such results, so the model keeps   *)
(* the binary64 values bit for bit: a float is a record                    *)
(*     [sign |-> 1 or -1, man |-> 53-bit mantissa, exp |-> exponent]       *)
(* of value sign * man * 2^exp, the mantissa being a natural number        *)
(* written in limbs of LimbBits bits (least significant limb first),       *)
(* because it does not fit the integers of the model checker.              *)
(***************************************************************************)
EXTENDS Integers, Sequences, FiniteSets, TLC

(***************************************************************************)
(* Natural numbers of arbitrary size: sequences of limbs, least            *)
(* significant first, without leading zero limbs; <<>> is zero.            *)
(***************************************************************************)
LimbBits == 15
Base == 2^LimbBits

RECURSIVE BTrim(_)
BTrim(x) ==
  IF x = <<>> THEN x
  ELSE IF x[Len(x)] = 0 THEN BTrim(SubSeq(x, 1, Len(x) - 1))
  ELSE x

RECURSIVE BFromInt(_)
BFromInt(n) == IF n = 0 THEN <<>> ELSE <<n % Base>> \o BFromInt(n \div Base)

RECURSIVE BToInt(_)
BToInt(x) == IF x = <<>> THEN 0 ELSE x[1] + Base * BToInt(Tail(x))

BLimb(x, i) == IF i >= 1 /\ i <= Len(x) THEN x[i] ELSE 0

RECURSIVE BAddC(_, _, _, _)
BAddC(x, y, i, c) ==
  IF i > Len(x) /\ i > Len(y)
  THEN IF c = 0 THEN <<>> ELSE <<c>>
  ELSE LET s == BLimb(x, i) + BLimb(y, i) + c
       IN  <<s % Base>> \o BAddC(x, y, i + 1, s \div Base)

BAdd(x, y) == BAddC(x, y, 1, 0)

RECURSIVE BSubC(_, _, _, _)
BSubC(x, y, i, c) ==
  IF i > Len(x) THEN <<>>
  ELSE LET s == x[i] - BLimb(y, i) - c
       IN  IF s < 0 THEN <<s + Base>> \o BSubC(x, y, i + 1, 1)
           ELSE <<s>> \o BSubC(x, y, i + 1, 0)

\* x - y, for x >= y
BSub(x, y) == BTrim(BSubC(x, y, 1, 0))

RECURSIVE BCmpAt(_, _, _)
BCmpAt(x, y, i) ==
  IF i = 0 THEN 0
  ELSE IF x[i] < y[i] THEN -1
  ELSE IF x[i] > y[i] THEN 1
  ELSE BCmpAt(x, y, i - 1)

\* -1, 0 or 1 as x < y, x = y or x > y
BCmp(x, y) ==
  IF Len(x) < Len(y) THEN -1
  ELSE IF Len(x) > Len(y) THEN 1
  ELSE BCmpAt(x, y, Len(x))

RECURSIVE BMulSmallC(_, _, _, _)
BMulSmallC(x, k, i, c) ==
  IF i > Len(x)
  THEN IF c = 0 THEN <<>> ELSE <<c>>
  ELSE LET s == x[i] * k + c
       IN  <<s % Base>> \o BMulSmallC(x, k, i + 1, s \div Base)

\* x * k, for 0 <= k < Base
BMulSmall(x, k) == IF k = 0 THEN <<>> ELSE BMulSmallC(x, k, 1, 0)

RECURSIVE BMul(_, _)
BMul(x, y) ==
  IF x = <<>> \/ y = <<>> THEN <<>>
  ELSE BAdd(BMulSmall(x, y[1]), BTrim(<<0>> \o BMul(x, Tail(y))))

RECURSIVE BDivSmallC(_, _, _, _)
BDivSmallC(x, k, i, r) ==
  IF i = 0 THEN <<>>
  ELSE LET cur == r * Base + x[i]
       IN  BDivSmallC(x, k, i - 1, cur % k) \o <<cur \div k>>

\* floor(x / k), for 0 < k <= Base
BDivSmall(x, k) == BTrim(BDivSmallC(x, k, Len(x), 0))

Zeros(n) == [i \in 1..n |-> 0]

\* x * 2^n
BShl(x, n) ==
  IF x = <<>> THEN x
  ELSE Zeros(n \div LimbBits) \o BMulSmall(x, 2^(n % LimbBits))

\* floor(x / 2^n)
BShr(x, n) ==
  IF n \div LimbBits >= Len(x) THEN <<>>
  ELSE BDivSmall(SubSeq(x, n \div LimbBits + 1, Len(x)), 2^(n % LimbBits))

RECURSIVE IntBits(_)
IntBits(n) == IF n = 0 THEN 0 ELSE 1 + IntBits(n \div 2)

\* number of bits of x
BBitLen(x) ==
  IF x = <<>> THEN 0 ELSE LimbBits * (Len(x) - 1) + IntBits(x[Len(x)])

BIsOdd(x) == x /= <<>> /\ x[1] % 2 = 1

(***************************************************************************)
(* Long division, one limb of the quotient at a time.  The divisor is      *)
(* scaled to a full top limb, so that the quotient limb estimated from     *)
(* the leading limbs is at most two too large; QFix lowers it to the       *)
(* exact limb.                                                             *)
(***************************************************************************)
RECURSIVE QFix(_, _, _)
QFix(r, d, q) ==
  IF BCmp(BMulSmall(d, q), r) <= 0 THEN q ELSE QFix(r, d, q - 1)

QLimb(r, d) ==
  LET L  == Len(d)
      rt == BLimb(r, L + 1) * Base + BLimb(r, L)
      qh == rt \div d[L]
  IN  QFix(r, d, IF qh > Base - 1 THEN Base - 1 ELSE qh)

RECURSIVE BDivRec(_, _, _, _, _)
BDivRec(n, d, i, r, q) ==
  IF i = 0 THEN <<BTrim(q), r>>
  ELSE LET cur == BTrim(<<n[i]>> \o r)
           ql  == QLimb(cur, d)
       IN  BDivRec(n, d, i - 1, BSub(cur, BMulSmall(d, ql)), <<ql>> \o q)

\* <<floor(n / d), whether n is a multiple of d>>, for d > 0
BDivMod(n, d) ==
  LET sh == LimbBits - IntBits(d[Len(d)])
      qr == BDivRec(BShl(n, sh), BShl(d, sh), Len(BShl(n, sh)), <<>>, <<>>)
  IN  <<qr[1], qr[2] = <<>>>>

(***************************************************************************)
(* Python floats.                                                          *)
(***************************************************************************)
MantBits == 53

FZero == [sign |-> 1, man |-> <<>>, exp |-> 0]

IsZero(x) == x.man = <<>>

\* The float nearest to sign * m * 2^e (plus a non-zero fraction of the last
\* place of m when sticky): round to nearest, ties to even.
FRound(sign, m, e, sticky) ==
  LET L == BBitLen(m)
  IN  IF m = <<>> THEN FZero
      ELSE IF L <= MantBits
      THEN [sign |-> sign, man |-> BShl(m, MantBits - L), exp |-> e - (MantBits - L)]
      ELSE LET sh   == L - MantBits
               q    == BShr(m, sh)
               rem  == BSub(m, BShl(q, sh))
               c    == BCmp(rem, BShl(<<1>>, sh - 1))
               up   == c > 0 \/ (c = 0 /\ (sticky \/ BIsOdd(q)))
               q2   == IF up THEN BAdd(q, <<1>>) ELSE q
           IN  IF BBitLen(q2) > MantBits
               THEN [sign |-> sign, man |-> BShr(q2, 1), exp |-> e + sh + 1]
               ELSE [sign |-> sign, man |-> q2, exp |-> e + sh]

\* float(n) for an integer n (exact: |n| < 2^53)
FromInt(n) ==
  IF n < 0 THEN FRound(-1, BFromInt(-n), 0, FALSE)
  ELSE FRound(1, BFromInt(n), 0, FALSE)

\* x * y
FMul(x, y) ==
  IF IsZero(x) \/ IsZero(y) THEN FZero
  ELSE FRound(x.sign * y.sign, BMul(x.man, y.man), x.exp + y.exp, FALSE)

\* x / y, for y /= 0
FDiv(x, y) ==
  IF IsZero(x) THEN FZero
  ELSE LET qr == BDivMod(BShl(x.man, MantBits + 3), y.man)
       IN  FRound(x.sign * y.sign, qr[1], x.exp - y.exp - (MantBits + 3), ~qr[2])

FNeg(x) == IF IsZero(x) THEN x ELSE [x EXCEPT !.sign = -x.sign]

\* x + y
FAdd(x, y) ==
  IF IsZero(x) THEN y
  ELSE IF IsZero(y) THEN x
  ELSE LET e  == IF x.exp < y.exp THEN x.exp ELSE y.exp
           mx == BShl(x.man, x.exp - e)
           my == BShl(y.man, y.exp - e)
           c  == BCmp(mx, my)
       IN  IF x.sign = y.sign THEN FRound(x.sign, BAdd(mx, my), e, FALSE)
           ELSE IF c = 0 THEN FZero
           ELSE IF c > 0 THEN FRound(x.sign, BSub(mx, my), e, FALSE)
           ELSE FRound(y.sign, BSub(my, mx), e, FALSE)

\* x - y
FSub(x, y) == FAdd(x, FNeg(y))

\* x < y
FLess(x, y) == LET d == FSub(x, y) IN ~IsZero(d) /\ d.sign = -1

\* x <= y
FLeq(x, y) == ~FLess(y, x)

\* floor(|x|) and whether |x| is an integer
AbsFloor(x) ==
  IF x.exp >= 0 THEN BToInt(BShl(x.man, x.exp)) ELSE BToInt(BShr(x.man, -x.exp))

AbsIsInt(x) ==
  x.exp >= 0 \/ BShl(BShr(x.man, -x.exp), -x.exp) = x.man

\* math.floor(x) and math.ceil(x): Python integers
Floor(x) ==
  IF x.sign = 1 THEN AbsFloor(x)
  ELSE IF AbsIsInt(x) THEN -AbsFloor(x) ELSE -(AbsFloor(x) + 1)

Ceil(x) ==
  IF x.sign = -1 THEN -AbsFloor(x)
  ELSE IF AbsIsInt(x) THEN AbsFloor(x) ELSE AbsFloor(x) + 1

(***************************************************************************)
(* The functions of src/2WayArb.py.                                        *)
(***************************************************************************)
Int100 == FromInt(100)
Int1 == FromInt(1)

\* down(val): m.floor(100 * val) / 100
down(val) == FDiv(FromInt(Floor(FMul(Int100, val))), Int100)

\* assess_risk_free(o1, o2): <<S, is_risk_free>>
assess_risk_free(x1, x2) ==
  LET s == FAdd(FDiv(Int1, x1), FDiv(Int1, x2))
  IN  <<s, FLess(s, Int1)>>

\* add_bet(bets, odds): the list with one more bet
add_bet(bs, odds) ==
  Append(bs, [odds |-> odds, stake |-> FZero, return |-> FZero, profit |-> FZero])

\* update_bet with the profit taken as stake - return
update_bet_sign(bs, stake1, stake2) ==
  LET return1 == down(FMul(stake1, bs[1].odds))
      return2 == down(FMul(stake2, bs[2].odds))
  IN  << [odds |-> bs[1].odds, stake |-> stake1, return |-> return1,
          profit |-> down(FSub(stake1, return1))],
         [odds |-> bs[2].odds, stake |-> stake2, return |-> return2,
          profit |-> down(FSub(stake2, return2))] >>

\* update_bet with the second bet's return taken from the first bet's stake
update_bet_index(bs, stake1, stake2) ==
  LET return1 == down(FMul(stake1, bs[1].odds))
      return2 == down(FMul(stake1, bs[2].odds))
  IN  << [odds |-> bs[1].odds, stake |-> stake1, return |-> return1,
          profit |-> down(FSub(return1, stake1))],
         [odds |-> bs[2].odds, stake |-> stake2, return |-> return2,
          profit |-> down(FSub(return2, stake2))] >>

\* update_bet(bets, stake1, stake2): the list after the update
update_bet(bs, stake1, stake2) ==
  LET return1 == down(FMul(stake1, bs[1].odds))
      return2 == down(FMul(stake2, bs[2].odds))
  IN  << [odds |-> bs[1].odds, stake |-> stake1, return |-> return1,
          profit |-> down(FSub(return1, stake1))],
         [odds |-> bs[2].odds, stake |-> stake2, return |-> return2,
          profit |-> down(FSub(return2, stake2))] >>

\* round_stake(stake, round_up)
round_stake(stake, round_up) ==
  IF round_up THEN FDiv(FromInt(Ceil(FMul(Int100, stake))), Int100)
  ELSE down(stake)

\* split_stakes with the rounding directions exchanged
split_stakes_swapped(bs, pay, x1, x2) ==
  LET stake1 == round_stake(FDiv(pay, x1), FLess(x2, x1))
      stake2 == round_stake(FDiv(pay, x2), FLess(x1, x2))
  IN  update_bet(bs, stake1, stake2)

\* split_stakes(bets, payout, o1, o2): the list after the update
split_stakes(bs, pay, x1, x2) ==
  LET stake1 == round_stake(FDiv(pay, x1), FLess(x1, x2))
      stake2 == round_stake(FDiv(pay, x2), FLess(x2, x1))
  IN  update_bet(bs, stake1, stake2)

\* min(x, y) of Python: the first argument unless the second is smaller
FMin(x, y) == IF FLess(y, x) THEN y ELSE x

(***************************************************************************)
(* The inputs of the page: odds and budget in steps of 0.01, read as the   *)
(* floats nearest to them.                                                 *)
(***************************************************************************)
MinOdds == 101
MinBudget == 1
OddsSpan == 3
MaxBudget == 3

\* A run of the lowest odds the inputs accept, and odds among which the cases
\* of the claims are found: total implied probability above 1 (1.50, 1.50),
\* equal to 1 (2.00, 2.00; 1.50, 3.00; 1.04, 26.00; 1.08, 13.50) and below 1,
\* with equal (2.50, 2.50) and unequal odds.
Odds ==
  (MinOdds .. MinOdds + OddsSpan)
    \cup {108, 138, 150, 175, 190, 200, 210, 220, 225, 250, 270, 300, 387,
          1350, 2600}
\* The smallest budgets the inputs accept, and some larger ones.
Budgets == (MinBudget .. MaxBudget) \cup {21, 105, 1000, 10000, 12345}

\* the float of an input given in hundredths
Input(n) == FDiv(FromInt(n), Int100)

None == [none |-> TRUE]

(***************************************************************************)
(* State: the arguments and locals of process_bets, its result, and the    *)
(* guaranteed profit the page shows.                                       *)
(***************************************************************************)
VARIABLES pc, o1, o2, T, S, is_risk_free, bets, payout, profit, result, min_profit

vars == <<pc, o1, o2, T, S, is_risk_free, bets, payout, profit, result, min_profit>>

Init ==
  /\ pc = "idle"
  /\ o1 = None /\ o2 = None /\ T = None
  /\ S = None /\ is_risk_free = None
  /\ bets = <<>> /\ payout = None /\ profit = None
  /\ result = None /\ min_profit = None

\* "Calculate Stakes" pressed: process_bets(o1, o2, T) is called
Calculate ==
  /\ pc = "idle"
  /\ \E a \in Odds, b \in Odds, t \in Budgets :
       /\ o1' = Input(a)
       /\ o2' = Input(b)
       /\ T' = Input(t)
  /\ pc' = "assess"
  /\ UNCHANGED <<S, is_risk_free, bets, payout, profit, result, min_profit>>

\* S, is_risk_free = assess_risk_free(o1, o2)
Assess ==
  /\ pc = "assess"
  /\ S' = assess_risk_free(o1, o2)[1]
  /\ is_risk_free' = assess_risk_free(o1, o2)[2]
  /\ pc' = "check"
  /\ UNCHANGED <<o1, o2, T, bets, payout, profit, result, min_profit>>

\* if not is_risk_free: return None, None
NoOpportunity ==
  /\ pc = "check"
  /\ ~is_risk_free
  /\ result' = <<None, None>>
  /\ pc' = "done"
  /\ UNCHANGED <<o1, o2, T, S, is_risk_free, bets, payout, profit, min_profit>>

\* AddBets without the return that precedes it
AddBetsUnguarded ==
  /\ pc = "check"
  /\ bets' = add_bet(add_bet(<<>>, o1), o2)
  /\ pc' = "derive"
  /\ UNCHANGED <<o1, o2, T, S, is_risk_free, payout, profit, result, min_profit>>

\* bets = []; add_bet(bets, o1); add_bet(bets, o2)
AddBets ==
  /\ pc = "check"
  /\ is_risk_free
  /\ bets' = add_bet(add_bet(<<>>, o1), o2)
  /\ pc' = "derive"
  /\ UNCHANGED <<o1, o2, T, S, is_risk_free, payout, profit, result, min_profit>>

\* Derive with the payout taken as T * S
DeriveTimes ==
  /\ pc = "derive"
  /\ payout' = down(FMul(T, S))
  /\ profit' = down(FSub(payout', T))
  /\ pc' = "split"
  /\ UNCHANGED <<o1, o2, T, S, is_risk_free, bets, result, min_profit>>

\* payout = down(T / S); profit = down(payout - T)
Derive ==
  /\ pc = "derive"
  /\ payout' = down(FDiv(T, S))
  /\ profit' = down(FSub(payout', T))
  /\ pc' = "split"
  /\ UNCHANGED <<o1, o2, T, S, is_risk_free, bets, result, min_profit>>

\* split_stakes(bets, payout, o1, o2)
SplitStakes ==
  /\ pc = "split"
  /\ bets' = split_stakes(bets, payout, o1, o2)
  /\ pc' = "return"
  /\ UNCHANGED <<o1, o2, T, S, is_risk_free, payout, profit, result, min_profit>>

\* ReturnBets returning the smaller of the two legs' profits
ReturnBetsMin ==
  /\ pc = "return"
  /\ result' = <<bets, FMin(bets[1].profit, bets[2].profit)>>
  /\ pc' = "done"
  /\ UNCHANGED <<o1, o2, T, S, is_risk_free, bets, payout, profit, min_profit>>

\* return bets, profit
ReturnBets ==
  /\ pc = "return"
  /\ result' = <<bets, profit>>
  /\ pc' = "done"
  /\ UNCHANGED <<o1, o2, T, S, is_risk_free, bets, payout, profit, min_profit>>

\* if bets is None: st.error(...)
ShowError ==
  /\ pc = "done"
  /\ result[1] = None
  /\ pc' = "shown"
  /\ UNCHANGED <<o1, o2, T, S, is_risk_free, bets, payout, profit, result, min_profit>>

\* min_profit = bet_data(bets, o1, o2)
bet_data ==
  /\ pc = "done"
  /\ result[1] /= None
  /\ LET net_profit1 == FSub(result[1][1].return, T)
         net_profit2 == FSub(result[1][2].return, T)
     IN  min_profit' = FMin(net_profit1, net_profit2)
  /\ pc' = "shown"
  /\ UNCHANGED <<o1, o2, T, S, is_risk_free, bets, payout, profit, result>>

\* the page is run again: nothing is kept from one evaluation to the next
Rerun ==
  /\ pc = "shown"
  /\ pc' = "idle"
  /\ o1' = None /\ o2' = None /\ T' = None
  /\ S' = None /\ is_risk_free' = None
  /\ bets' = <<>> /\ payout' = None /\ profit' = None
  /\ result' = None /\ min_profit' = None

Next ==
  \/ Calculate
  \/ Assess
  \/ NoOpportunity
  \/ AddBets
  \/ Derive
  \/ SplitStakes
  \/ ReturnBets
  \/ ShowError
  \/ bet_data
  \/ Rerun

Spec == Init /\ [][Next]_vars

(***************************************************************************)
(* The claims.  floor2 and ceil2 are the quantizations the specification   *)
(* names; Cents(x) is the number of cents (or hundredths) a float stands   *)
(* for.                                                                    *)
(***************************************************************************)
floor2(x) == FDiv(FromInt(Floor(FMul(Int100, x))), Int100)
ceil2(x) == FDiv(FromInt(Ceil(FMul(Int100, x))), Int100)
Cents(x) == Floor(FAdd(FMul(Int100, x), FDiv(Int1, FromInt(2))))

\* the assessment has run
Assessed == pc \in {"check", "derive", "split", "return", "done", "shown"}

\* split_stakes has run
Allocated == pc = "return" \/ (pc \in {"done", "shown"} /\ is_risk_free)

\* C1: after the allocation of a risk-free input, the profit of both bets
\* is at least 0.
C1_ProfitNonNegative ==
  Allocated => \A i \in 1..2 : ~FLess(bets[i].profit, FZero)

C1_Witness ==
  /\ Allocated
  /\ FLess(o1, o2)
  /\ FLess(FDiv(payout, o1), bets[1].stake)
  /\ FLess(bets[2].stake, FDiv(payout, o2))
  /\ FLess(FZero, bets[1].profit)

\* C2: after split_stakes, the return of both legs is at least the payout
\* passed to split_stakes.
C2_ReturnCoversPayout ==
  Allocated => \A i \in 1..2 : FLeq(payout, bets[i].return)

\* C3: whenever bets are returned, the return of each leg is at least the
\* total staked on both legs, so that neither outcome is a net loss.
C3_ReturnCoversStakes ==
  Allocated =>
    \A i \in 1..2 :
      Cents(bets[i].return) >= Cents(bets[1].stake) + Cents(bets[2].stake)

C5_RiskFreeIffBelowOne ==
  Assessed =>
    (is_risk_free <=> 100 * (Cents(o1) + Cents(o2)) < Cents(o1) * Cents(o2))

\* C6: the assessment runs before anything else, and when it reports not
\* risk-free the evaluation ends with (None, None): no bet is constructed,
\* no payout or profit is derived, and split_stakes is not run.
C6_NoOpportunityStops ==
  /\ pc \in {"idle", "assess"} => bets = <<>> /\ payout = None /\ profit = None
  /\ (Assessed /\ ~is_risk_free) =>
       /\ pc \in {"check", "done", "shown"}
       /\ bets = <<>>
       /\ payout = None
       /\ profit = None
       /\ min_profit = None
       /\ pc \in {"done", "shown"} => result = <<None, None>>

C6_Witness == pc = "done" /\ ~is_risk_free /\ result = <<None, None>>

\* C7: the leg with the lower odds gets the ceiling of its raw stake
\* payout / odds at cent granularity and the leg with the higher odds the
\* floor; with equal odds both legs get the floor.
C7_RoundingDirection ==
  Allocated =>
    LET raw1 == FDiv(payout, o1)
        raw2 == FDiv(payout, o2)
    IN  IF Cents(o1) < Cents(o2)
        THEN bets[1].stake = ceil2(raw1) /\ bets[2].stake = floor2(raw2)
        ELSE IF Cents(o2) < Cents(o1)
        THEN bets[1].stake = floor2(raw1) /\ bets[2].stake = ceil2(raw2)
        ELSE bets[1].stake = floor2(raw1) /\ bets[2].stake = floor2(raw2)

C7_Witness ==
  /\ Allocated
  /\ Cents(o2) < Cents(o1)
  /\ ceil2(FDiv(payout, o2)) /= floor2(FDiv(payout, o2))
  /\ ceil2(FDiv(payout, o1)) /= floor2(FDiv(payout, o1))

\* C8: after the allocation each bet keeps the odds it was created with,
\* its return is floor2(stake * odds) and its profit floor2(return - stake),
\* for the rounded stake stored in the bet.
C8_ReturnProfitFromRoundedStake ==
  Allocated =>
    /\ bets[1].odds = o1
    /\ bets[2].odds = o2
    /\ \A i \in 1..2 :
         /\ bets[i].return = floor2(FMul(bets[i].stake, bets[i].odds))
         /\ bets[i].profit = floor2(FSub(bets[i].return, bets[i].stake))

C8_Witness ==
  /\ Allocated
  /\ bets[2].stake /= FDiv(payout, o2)
  /\ bets[2].return /= payout
  /\ bets[1].stake /= bets[2].stake

\* C9: the payout handed to split_stakes is floor2(T / S) for
\* S = 1/o1 + 1/o2, and the profit process_bets returns is
\* floor2(payout - T).
C9_PayoutAndTheoreticalProfit ==
  /\ (pc = "split" \/ Allocated) =>
       /\ S = FAdd(FDiv(Int1, o1), FDiv(Int1, o2))
       /\ payout = floor2(FDiv(T, S))
       /\ profit = floor2(FSub(payout, T))
  /\ (pc = "done" /\ is_risk_free) => result[2] = profit

C9_Witness ==
  /\ pc = "split"
  /\ payout /= FDiv(T, S)
  /\ FLess(T, payout)
  /\ FLess(FZero, profit)

\* C10: the two rounded stakes together never exceed the budget T.
C10_StakesWithinBudget ==
  Allocated => Cents(bets[1].stake) + Cents(bets[2].stake) <= Cents(T)
====
